---------------------------- MODULE Spec2Model ----------------------------
(***************************************************************************)
(* AES256Cipher (packages/core/src/cipher/AES256Cipher.ts): the encrypt /  *)
(* decrypt pair of the DDC SDK, AES-256-CBC with PKCS7 padding, key        *)
(* derived by one SHA-256 pass, envelope IV || ciphertext.                 *)
(*                                                                         *)
(* Bytes are 0..255, blocks are 16 bytes, derived keys are 32 bytes.  The  *)
(* three primitives of Node's crypto module are modelled by what the code  *)
(* relies on: createHash('sha256') is a deterministic map from a byte      *)
(* string to 32 bytes, the AES block function is a keyed permutation of    *)
(* 16-byte blocks (four rounds of byte substitution chained over the       *)
(* block in both directions, so that a change of one bit of the input of   *)
(* either direction spreads over the whole block), and createCipheriv /    *)
(* createDecipheriv run that permutation in CBC mode with PKCS7 padding as *)
(* OpenSSL does.                                                           *)
(*                                                                         *)
(* Two specifications: Spec runs whole calls as the test suite does, one   *)
(* encrypt, a change of the buffer, one decrypt; SpecCalls runs several    *)
(* calls on one object statement by statement, in every interleaving.      *)
(***************************************************************************)
EXTENDS Integers, Sequences, FiniteSets, TLC

(***************************************************************************)
(* Program constants                                                       *)
(***************************************************************************)
IV_LENGTH == 16

BLOCK_SIZE == 16

KEY_LENGTH == 32

Byte == 0..255

(***************************************************************************)
(* Byte arithmetic                                                         *)
(***************************************************************************)
RECURSIVE XorBits(_, _, _)
XorBits(a, b, n) ==
  IF n = 0 THEN 0
  ELSE (((a % 2) + (b % 2)) % 2) + 2 * XorBits(a \div 2, b \div 2, n - 1)

XorTable == [a \in Byte |-> [b \in Byte |-> XorBits(a, b, 8)]]

Xor(a, b) == XorTable[a][b]

\* A byte array given by its elements, held as a plain tuple
ByteArray(f) == f \o <<>>

XorSeq(s, t) == ByteArray([i \in 1..Len(s) |-> Xor(s[i], t[i])])

(***************************************************************************)
(* Buffer.from(str, 'utf-8'): a JavaScript string is a sequence of UTF-16  *)
(* code units; a surrogate pair is one code point of four bytes, a lone    *)
(* surrogate is replaced by U+FFFD (EF BF BD).                             *)
(***************************************************************************)
IsHighSurrogate(u) == u >= 55296 /\ u <= 56319

IsLowSurrogate(u) == u >= 56320 /\ u <= 57343

Utf8OfCodePoint(c) ==
  IF c < 128 THEN <<c>>
  ELSE IF c < 2048 THEN <<192 + (c \div 64), 128 + (c % 64)>>
  ELSE IF c < 65536
    THEN <<224 + (c \div 4096), 128 + ((c \div 64) % 64), 128 + (c % 64)>>
  ELSE <<240 + (c \div 262144), 128 + ((c \div 4096) % 64),
         128 + ((c \div 64) % 64), 128 + (c % 64)>>

RECURSIVE Utf8Encode(_)
Utf8Encode(str) ==
  IF str = <<>> THEN <<>>
  ELSE IF IsHighSurrogate(str[1]) /\ Len(str) >= 2 /\ IsLowSurrogate(str[2])
    THEN Utf8OfCodePoint(65536 + (str[1] - 55296) * 1024 + (str[2] - 56320))
           \o Utf8Encode(SubSeq(str, 3, Len(str)))
  ELSE IF IsHighSurrogate(str[1]) \/ IsLowSurrogate(str[1])
    THEN <<239, 191, 189>> \o Utf8Encode(Tail(str))
  ELSE Utf8OfCodePoint(str[1]) \o Utf8Encode(Tail(str))

(***************************************************************************)
(* createHash('sha256').update(b).digest(): 32 bytes, a function of b      *)
(***************************************************************************)
RECURSIVE HashAbsorb(_, _)
HashAbsorb(b, h) ==
  IF b = <<>> THEN h
  ELSE HashAbsorb(Tail(b), (h * 257 + b[1] + 1) % 65521)

Sha256(b) ==
  LET h == HashAbsorb(b, (Len(b) * 31 + 7) % 65521)
  IN  ByteArray([j \in 1..KEY_LENGTH |->
                   ((h + j) * (2 * j + 1) + (h \div 251) * j) % 256])

(***************************************************************************)
(* The AES block function under a 32-byte key, and its inverse             *)
(***************************************************************************)
\* rotate left by three bits
Rotl3(x) == ((x * 8) % 256) + (x \div 32)

Rotr3(x) == (x \div 8) + ((x % 8) * 32)

SubByte(x) == Rotl3((x * 167 + 89) % 256)

InvSubByte(y) == ((Rotr3(y) + 256 - 89) * 23) % 256

\* Round 1: each byte is mixed with the output byte before it; out holds
\* the bytes produced so far.
RECURSIVE ForwardPass(_, _, _)
ForwardPass(key, b, out) ==
  IF Len(out) = BLOCK_SIZE THEN out
  ELSE LET i == Len(out) + 1
           prev == IF i = 1 THEN key[KEY_LENGTH] ELSE out[i - 1]
       IN  ForwardPass(key, b,
                       Append(out, SubByte(Xor(Xor(b[i], key[i]), prev))))

InvForwardPass(key, c) ==
  ByteArray([i \in 1..BLOCK_SIZE |->
     Xor(Xor(InvSubByte(c[i]), key[i]),
         IF i = 1 THEN key[KEY_LENGTH] ELSE c[i - 1])])

\* Round 2: each byte is mixed with the output byte after it.
RECURSIVE BackwardPass(_, _, _)
BackwardPass(key, b, out) ==
  IF Len(out) = BLOCK_SIZE THEN out
  ELSE LET i == BLOCK_SIZE - Len(out)
           next == IF i = BLOCK_SIZE THEN key[1] ELSE out[1]
       IN  BackwardPass(key, b,
                        <<SubByte(Xor(Xor(b[i], key[BLOCK_SIZE + i]), next))>> \o out)

InvBackwardPass(key, c) ==
  ByteArray([i \in 1..BLOCK_SIZE |->
     Xor(Xor(InvSubByte(c[i]), key[BLOCK_SIZE + i]),
         IF i = BLOCK_SIZE THEN key[1] ELSE c[i + 1])])

\* Round 3: each byte is mixed with the input byte before it.
ForwardMix(key, b) ==
  ByteArray([i \in 1..BLOCK_SIZE |->
     Xor(SubByte(Xor(b[i], key[BLOCK_SIZE + i])),
         IF i = 1 THEN key[2] ELSE b[i - 1])])

RECURSIVE InvForwardMix(_, _, _)
InvForwardMix(key, c, out) ==
  IF Len(out) = BLOCK_SIZE THEN out
  ELSE LET i == Len(out) + 1
           prev == IF i = 1 THEN key[2] ELSE out[i - 1]
       IN  InvForwardMix(key, c,
                         Append(out, Xor(InvSubByte(Xor(c[i], prev)),
                                         key[BLOCK_SIZE + i])))

\* Round 4: each byte is mixed with the input byte after it.
BackwardMix(key, b) ==
  ByteArray([i \in 1..BLOCK_SIZE |->
     Xor(SubByte(Xor(b[i], key[i])),
         IF i = BLOCK_SIZE THEN key[KEY_LENGTH - 1] ELSE b[i + 1])])

RECURSIVE InvBackwardMix(_, _, _)
InvBackwardMix(key, c, out) ==
  IF Len(out) = BLOCK_SIZE THEN out
  ELSE LET i == BLOCK_SIZE - Len(out)
           next == IF i = BLOCK_SIZE THEN key[KEY_LENGTH - 1] ELSE out[1]
       IN  InvBackwardMix(key, c,
                          <<Xor(InvSubByte(Xor(c[i], next)), key[i])>> \o out)

AesEncryptBlock(key, b) ==
  BackwardMix(key, ForwardMix(key, BackwardPass(key, ForwardPass(key, b, <<>>), <<>>)))

AesDecryptBlock(key, c) ==
  InvForwardPass(key, InvBackwardPass(key,
    InvForwardMix(key, InvBackwardMix(key, c, <<>>), <<>>)))

(***************************************************************************)
(* What a call gives back: a returned byte array, or a thrown Error whose  *)
(* message is text followed by cause                                       *)
(***************************************************************************)
Returned(v) == [threw |-> FALSE, value |-> v, text |-> "", cause |-> ""]

Threw(t, c) == [threw |-> TRUE, value |-> <<>>, text |-> t, cause |-> c]

(***************************************************************************)
(* createCipheriv('aes-256-cbc', key, iv): update(data) then final().      *)
(* PKCS7 pads to the next block boundary, a full block when aligned.       *)
(***************************************************************************)
Pkcs7Pad(data) ==
  LET n == BLOCK_SIZE - (Len(data) % BLOCK_SIZE)
  IN  data \o [i \in 1..n |-> n]

RECURSIVE CbcEncrypt(_, _, _)
CbcEncrypt(key, prev, padded) ==
  IF padded = <<>> THEN <<>>
  ELSE LET c == AesEncryptBlock(key, XorSeq(SubSeq(padded, 1, BLOCK_SIZE), prev))
       IN  c \o CbcEncrypt(key, c, SubSeq(padded, BLOCK_SIZE + 1, Len(padded)))

createCipheriv(key, iv, data) ==
  IF Len(key) # KEY_LENGTH THEN Threw("", "Invalid key length")
  ELSE IF Len(iv) # BLOCK_SIZE THEN Threw("", "Invalid initialization vector")
  ELSE Returned(CbcEncrypt(key, iv, Pkcs7Pad(data)))

(***************************************************************************)
(* createDecipheriv('aes-256-cbc', key, iv): update(ciphertext) then       *)
(* final().  final() throws when the input is not a whole number of        *)
(* blocks, and when the last block does not end in n bytes of value n,     *)
(* 1 <= n <= 16; otherwise those n bytes are stripped.                     *)
(***************************************************************************)
RECURSIVE CbcDecrypt(_, _, _)
CbcDecrypt(key, prev, ct) ==
  IF ct = <<>> THEN <<>>
  ELSE LET c == SubSeq(ct, 1, BLOCK_SIZE)
       IN  XorSeq(AesDecryptBlock(key, c), prev)
             \o CbcDecrypt(key, c, SubSeq(ct, BLOCK_SIZE + 1, Len(ct)))

Pkcs7Valid(plain) ==
  LET n == plain[Len(plain)]
  IN  /\ n >= 1
      /\ n <= BLOCK_SIZE
      /\ \A i \in (Len(plain) - n + 1)..Len(plain) : plain[i] = n

createDecipheriv(key, iv, ciphertext) ==
  IF Len(key) # KEY_LENGTH THEN Threw("", "Invalid key length")
  ELSE IF Len(iv) # BLOCK_SIZE THEN Threw("", "Invalid initialization vector")
  ELSE IF Len(ciphertext) = 0 \/ Len(ciphertext) % BLOCK_SIZE # 0
    THEN Threw("", "wrong final block length")
  ELSE LET plain == CbcDecrypt(key, iv, ciphertext)
       IN  IF Pkcs7Valid(plain)
             THEN Returned(SubSeq(plain, 1, Len(plain) - plain[Len(plain)]))
             ELSE Threw("", "bad decrypt")

(***************************************************************************)
(* Arguments.  data and encryptedData are a Uint8Array or missing; dek is  *)
(* a string (UTF-16 code units), a Uint8Array, or missing.                 *)
(***************************************************************************)
Bytes(v) == [type |-> "Uint8Array", val |-> v]

Text(v) == [type |-> "string", val |-> v]

Undefined == [type |-> "undefined", val |-> <<>>]

\* a value that is neither: what an untyped caller may pass as dek
Number42 == [type |-> "number", val |-> <<>>]

DataEmpty(data) == data.type = "undefined" \/ Len(data.val) = 0

DekEmpty(dek) ==
  \/ dek.type = "undefined"
  \/ (dek.type = "string" /\ Len(dek.val) = 0)
  \/ (dek.type = "Uint8Array" /\ Len(dek.val) = 0)

(***************************************************************************)
(* AES256Cipher                                                            *)
(***************************************************************************)
\* Buffer.from(dek) takes a string or a byte array; for any other value it
\* throws a TypeError with this message.
IsKeyMaterial(dek) == dek.type \in {"string", "Uint8Array"}

BufferFromError ==
  "The first argument must be of type string or an instance of Buffer, ArrayBuffer, or Array or an Array-like Object. Received type number (42)"

\* deriveKey taking the string as latin1, one byte per code unit
deriveKeyLatin1(dek) ==
  LET dekBuffer == IF dek.type = "string"
                     THEN ByteArray([i \in 1..Len(dek.val) |-> dek.val[i] % 256])
                     ELSE dek.val
  IN  Sha256(dekBuffer)

\* deriveKey hashing the digest a second time
deriveKeyDoubleHash(dek) ==
  LET dekBuffer == IF dek.type = "string" THEN Utf8Encode(dek.val) ELSE dek.val
  IN  Sha256(Sha256(dekBuffer))

deriveKey(dek) ==
  LET dekBuffer == IF dek.type = "string" THEN Utf8Encode(dek.val) ELSE dek.val
  IN  Sha256(dekBuffer)

\* encrypt returning the ciphertext alone, the IV left out of the result
encryptWithoutIv(data, dek, rnd) ==
  IF DataEmpty(data) THEN Threw("Data to encrypt cannot be empty", "")
  ELSE IF DekEmpty(dek) THEN Threw("DEK (Data Encryption Key) cannot be empty", "")
  ELSE IF ~IsKeyMaterial(dek) THEN Threw("Encryption failed: ", BufferFromError)
  ELSE LET key == deriveKey(dek)
       IN  IF rnd.threw THEN Threw("Encryption failed: ", rnd.cause)
           ELSE LET iv == rnd.value
                    encrypted == createCipheriv(key, iv, data.val)
                IN  IF encrypted.threw
                      THEN Threw("Encryption failed: ", encrypted.cause)
                      ELSE Returned(encrypted.value)

\* encrypt putting the IV after the ciphertext instead of before it
encryptIvAppended(data, dek, rnd) ==
  IF DataEmpty(data) THEN Threw("Data to encrypt cannot be empty", "")
  ELSE IF DekEmpty(dek) THEN Threw("DEK (Data Encryption Key) cannot be empty", "")
  ELSE IF ~IsKeyMaterial(dek) THEN Threw("Encryption failed: ", BufferFromError)
  ELSE LET key == deriveKey(dek)
       IN  IF rnd.threw THEN Threw("Encryption failed: ", rnd.cause)
           ELSE LET iv == rnd.value
                    encrypted == createCipheriv(key, iv, data.val)
                IN  IF encrypted.threw
                      THEN Threw("Encryption failed: ", encrypted.cause)
                      ELSE Returned(encrypted.value \o iv)

\* encrypt whose key check tests strings only, so an empty Uint8Array passes
encryptNoEmptyBytesCheck(data, dek, rnd) ==
  IF DataEmpty(data) THEN Threw("Data to encrypt cannot be empty", "")
  ELSE IF dek.type = "undefined" \/ (dek.type = "string" /\ Len(dek.val) = 0)
    THEN Threw("DEK (Data Encryption Key) cannot be empty", "")
  ELSE IF ~IsKeyMaterial(dek) THEN Threw("Encryption failed: ", BufferFromError)
  ELSE LET key == deriveKey(dek)
       IN  IF rnd.threw THEN Threw("Encryption failed: ", rnd.cause)
           ELSE LET iv == rnd.value
                    encrypted == createCipheriv(key, iv, data.val)
                IN  IF encrypted.threw
                      THEN Threw("Encryption failed: ", encrypted.cause)
                      ELSE Returned(iv \o encrypted.value)

\* encrypt checking dek before data
encryptDekCheckedFirst(data, dek, rnd) ==
  IF DekEmpty(dek) THEN Threw("DEK (Data Encryption Key) cannot be empty", "")
  ELSE IF DataEmpty(data) THEN Threw("Data to encrypt cannot be empty", "")
  ELSE IF ~IsKeyMaterial(dek) THEN Threw("Encryption failed: ", BufferFromError)
  ELSE LET key == deriveKey(dek)
       IN  IF rnd.threw THEN Threw("Encryption failed: ", rnd.cause)
           ELSE LET iv == rnd.value
                    encrypted == createCipheriv(key, iv, data.val)
                IN  IF encrypted.threw
                      THEN Threw("Encryption failed: ", encrypted.cause)
                      ELSE Returned(iv \o encrypted.value)

\* encrypt with its two argument checks moved inside the try block
encryptValidatesInsideTry(data, dek, rnd) ==
  IF DataEmpty(data)
    THEN Threw("Encryption failed: ", "Data to encrypt cannot be empty")
  ELSE IF DekEmpty(dek)
    THEN Threw("Encryption failed: ", "DEK (Data Encryption Key) cannot be empty")
  ELSE IF ~IsKeyMaterial(dek) THEN Threw("Encryption failed: ", BufferFromError)
  ELSE LET key == deriveKey(dek)
       IN  IF rnd.threw THEN Threw("Encryption failed: ", rnd.cause)
           ELSE LET iv == rnd.value
                    encrypted == createCipheriv(key, iv, data.val)
                IN  IF encrypted.threw
                      THEN Threw("Encryption failed: ", encrypted.cause)
                      ELSE Returned(iv \o encrypted.value)

\* encrypt without the try block, the error thrown inside going to the caller
encryptWithoutCatch(data, dek, rnd) ==
  IF DataEmpty(data) THEN Threw("Data to encrypt cannot be empty", "")
  ELSE IF DekEmpty(dek) THEN Threw("DEK (Data Encryption Key) cannot be empty", "")
  ELSE IF ~IsKeyMaterial(dek) THEN Threw("", BufferFromError)
  ELSE LET key == deriveKey(dek)
       IN  IF rnd.threw THEN Threw("", rnd.cause)
           ELSE LET iv == rnd.value
                    encrypted == createCipheriv(key, iv, data.val)
                IN  IF encrypted.threw
                      THEN Threw("", encrypted.cause)
                      ELSE Returned(iv \o encrypted.value)

\* rnd is what randomBytes(IV_LENGTH) does in this call: it returns 16 bytes
\* or throws.
encrypt(data, dek, rnd) ==
  IF DataEmpty(data) THEN Threw("Data to encrypt cannot be empty", "")
  ELSE IF DekEmpty(dek) THEN Threw("DEK (Data Encryption Key) cannot be empty", "")
  ELSE IF ~IsKeyMaterial(dek) THEN Threw("Encryption failed: ", BufferFromError)
  ELSE LET key == deriveKey(dek)
       IN  IF rnd.threw THEN Threw("Encryption failed: ", rnd.cause)
           ELSE LET iv == rnd.value
                    encrypted == createCipheriv(key, iv, data.val)
                IN  IF encrypted.threw
                      THEN Threw("Encryption failed: ", encrypted.cause)
                      ELSE Returned(iv \o encrypted.value)

\* decrypt that does not skip the IV when it takes the ciphertext
decryptIvNotSkipped(encryptedData, dek) ==
  IF encryptedData.type = "undefined" \/ Len(encryptedData.val) <= IV_LENGTH
    THEN Threw("Encrypted data is too short or empty (must be > 16 bytes)", "")
  ELSE IF DekEmpty(dek) THEN Threw("DEK (Data Encryption Key) cannot be empty", "")
  ELSE IF ~IsKeyMaterial(dek)
    THEN Threw("Decryption failed: Wrong key or tampered data", "")
  ELSE LET buffer == encryptedData.val
           iv == SubSeq(buffer, 1, IV_LENGTH)
           ciphertext == buffer
           key == deriveKey(dek)
           decrypted == createDecipheriv(key, iv, ciphertext)
       IN  IF decrypted.threw
             THEN Threw("Decryption failed: Wrong key or tampered data", "")
             ELSE Returned(decrypted.value)

\* decrypt whose length check is < instead of <=
decryptLengthOffByOne(encryptedData, dek) ==
  IF encryptedData.type = "undefined" \/ Len(encryptedData.val) < IV_LENGTH
    THEN Threw("Encrypted data is too short or empty (must be > 16 bytes)", "")
  ELSE IF DekEmpty(dek) THEN Threw("DEK (Data Encryption Key) cannot be empty", "")
  ELSE IF ~IsKeyMaterial(dek)
    THEN Threw("Decryption failed: Wrong key or tampered data", "")
  ELSE LET buffer == encryptedData.val
           iv == SubSeq(buffer, 1, IV_LENGTH)
           ciphertext == SubSeq(buffer, IV_LENGTH + 1, Len(buffer))
           key == deriveKey(dek)
           decrypted == createDecipheriv(key, iv, ciphertext)
       IN  IF decrypted.threw
             THEN Threw("Decryption failed: Wrong key or tampered data", "")
             ELSE Returned(decrypted.value)

\* decrypt without the key check, the empty key going on to key derivation
decryptNoDekCheck(encryptedData, dek) ==
  IF encryptedData.type = "undefined" \/ Len(encryptedData.val) <= IV_LENGTH
    THEN Threw("Encrypted data is too short or empty (must be > 16 bytes)", "")
  ELSE IF ~IsKeyMaterial(dek)
    THEN Threw("Decryption failed: Wrong key or tampered data", "")
  ELSE LET buffer == encryptedData.val
           iv == SubSeq(buffer, 1, IV_LENGTH)
           ciphertext == SubSeq(buffer, IV_LENGTH + 1, Len(buffer))
           key == deriveKey(dek)
           decrypted == createDecipheriv(key, iv, ciphertext)
       IN  IF decrypted.threw
             THEN Threw("Decryption failed: Wrong key or tampered data", "")
             ELSE Returned(decrypted.value)

\* decrypt giving the engine a zero IV instead of the first 16 bytes
decryptIgnoresIv(encryptedData, dek) ==
  IF encryptedData.type = "undefined" \/ Len(encryptedData.val) <= IV_LENGTH
    THEN Threw("Encrypted data is too short or empty (must be > 16 bytes)", "")
  ELSE IF DekEmpty(dek) THEN Threw("DEK (Data Encryption Key) cannot be empty", "")
  ELSE IF ~IsKeyMaterial(dek)
    THEN Threw("Decryption failed: Wrong key or tampered data", "")
  ELSE LET buffer == encryptedData.val
           iv == [i \in 1..IV_LENGTH |-> 0] \o <<>>
           ciphertext == SubSeq(buffer, IV_LENGTH + 1, Len(buffer))
           key == deriveKey(dek)
           decrypted == createDecipheriv(key, iv, ciphertext)
       IN  IF decrypted.threw
             THEN Threw("Decryption failed: Wrong key or tampered data", "")
             ELSE Returned(decrypted.value)

\* decrypt with the engine's padding removal switched off
decryptKeepsPadding(encryptedData, dek) ==
  IF encryptedData.type = "undefined" \/ Len(encryptedData.val) <= IV_LENGTH
    THEN Threw("Encrypted data is too short or empty (must be > 16 bytes)", "")
  ELSE IF DekEmpty(dek) THEN Threw("DEK (Data Encryption Key) cannot be empty", "")
  ELSE IF ~IsKeyMaterial(dek)
    THEN Threw("Decryption failed: Wrong key or tampered data", "")
  ELSE LET buffer == encryptedData.val
           iv == SubSeq(buffer, 1, IV_LENGTH)
           ciphertext == SubSeq(buffer, IV_LENGTH + 1, Len(buffer))
           key == deriveKey(dek)
       IN  IF Len(ciphertext) % BLOCK_SIZE # 0
             THEN Threw("Decryption failed: Wrong key or tampered data", "")
             ELSE Returned(CbcDecrypt(key, iv, ciphertext))

\* decrypt with a length check of its own before the engine, reported as a
\* precondition failure
decryptBlockLengthValidated(encryptedData, dek) ==
  IF encryptedData.type = "undefined" \/ Len(encryptedData.val) <= IV_LENGTH
    THEN Threw("Encrypted data is too short or empty (must be > 16 bytes)", "")
  ELSE IF DekEmpty(dek) THEN Threw("DEK (Data Encryption Key) cannot be empty", "")
  ELSE IF (Len(encryptedData.val) - IV_LENGTH) % BLOCK_SIZE # 0
    THEN Threw("Encrypted data is too short or empty (must be > 16 bytes)", "")
  ELSE IF ~IsKeyMaterial(dek)
    THEN Threw("Decryption failed: Wrong key or tampered data", "")
  ELSE LET buffer == encryptedData.val
           iv == SubSeq(buffer, 1, IV_LENGTH)
           ciphertext == SubSeq(buffer, IV_LENGTH + 1, Len(buffer))
           key == deriveKey(dek)
           decrypted == createDecipheriv(key, iv, ciphertext)
       IN  IF decrypted.threw
             THEN Threw("Decryption failed: Wrong key or tampered data", "")
             ELSE Returned(decrypted.value)

\* decrypt whose catch passes the engine's message on
decryptLeaksCause(encryptedData, dek) ==
  IF encryptedData.type = "undefined" \/ Len(encryptedData.val) <= IV_LENGTH
    THEN Threw("Encrypted data is too short or empty (must be > 16 bytes)", "")
  ELSE IF DekEmpty(dek) THEN Threw("DEK (Data Encryption Key) cannot be empty", "")
  ELSE IF ~IsKeyMaterial(dek)
    THEN Threw("Decryption failed: Wrong key or tampered data", BufferFromError)
  ELSE LET buffer == encryptedData.val
           iv == SubSeq(buffer, 1, IV_LENGTH)
           ciphertext == SubSeq(buffer, IV_LENGTH + 1, Len(buffer))
           key == deriveKey(dek)
           decrypted == createDecipheriv(key, iv, ciphertext)
       IN  IF decrypted.threw
             THEN Threw("Decryption failed: Wrong key or tampered data",
                        decrypted.cause)
             ELSE Returned(decrypted.value)

decrypt(encryptedData, dek) ==
  IF encryptedData.type = "undefined" \/ Len(encryptedData.val) <= IV_LENGTH
    THEN Threw("Encrypted data is too short or empty (must be > 16 bytes)", "")
  ELSE IF DekEmpty(dek) THEN Threw("DEK (Data Encryption Key) cannot be empty", "")
  ELSE IF ~IsKeyMaterial(dek)
    THEN Threw("Decryption failed: Wrong key or tampered data", "")
  ELSE LET buffer == encryptedData.val
           iv == SubSeq(buffer, 1, IV_LENGTH)
           ciphertext == SubSeq(buffer, IV_LENGTH + 1, Len(buffer))
           key == deriveKey(dek)
           decrypted == createDecipheriv(key, iv, ciphertext)
       IN  IF decrypted.threw
             THEN Threw("Decryption failed: Wrong key or tampered data", "")
             ELSE Returned(decrypted.value)

(***************************************************************************)
(* NaclCipher: both methods throw at once                                  *)
(***************************************************************************)
\* NaclCipher.encrypt checking its plaintext before it throws
naclEncryptValidates(data, dek) ==
  IF DataEmpty(data) THEN Threw("Data to encrypt cannot be empty", "")
  ELSE Threw("NaclCipher.encrypt() - Reference implementation only", "")

naclEncrypt(data, dek) ==
  Threw("NaclCipher.encrypt() - Reference implementation only", "")

naclDecrypt(encryptedData, dek) ==
  Threw("NaclCipher.decrypt() - Reference implementation only", "")

(***************************************************************************)
(* Inputs of the calls                                                     *)
(***************************************************************************)
MaxBlocks == 2

NumIVs == 2

PlainLengths ==
  {1, 5, 13, 15} \cup {BLOCK_SIZE * b : b \in 1..MaxBlocks}
             \cup {BLOCK_SIZE * b + 1 : b \in 1..(MaxBlocks - 1)}

PlainFills == {"count", "zero", "high"}

\* "count" is 1, 2, 3, ...; "high" is 0xFF with 0x01 closing every block.
Plain(len, fill) ==
  ByteArray([i \in 1..len |->
     IF fill = "count" THEN i % 256
     ELSE IF fill = "zero" THEN 0
     ELSE IF i % BLOCK_SIZE = 0 THEN 1 ELSE 255])

DataSet ==
  {Bytes(Plain(l, f)) : l \in PlainLengths, f \in PlainFills}
    \cup {Bytes(<<>>), Undefined}

\* "k", the bytes of "k", "l", "jr", U+00E9 and the two bytes of its UTF-8
\* encoding, the three empty forms, and the number 42
DekSet ==
  {Text(<<107>>), Bytes(<<107>>), Text(<<108>>), Text(<<106, 114>>),
   Text(<<233>>), Bytes(<<195, 169>>),
   Text(<<>>), Bytes(<<>>), Undefined, Number42}

IV(n) == ByteArray([i \in 1..IV_LENGTH |-> (n * (i * 37 + 11)) % 256])

\* randomBytes(16) returns 16 bytes, or throws when the entropy source fails
RandomSet ==
  {Returned(IV(n)) : n \in 0..(NumIVs - 1)} \cup {Threw("", "entropy source failure")}

Zeros(n) == ByteArray([i \in 1..n |-> 0])

FlipBits == {0, 7}

RECURSIVE Pow2(_)
Pow2(n) == IF n = 0 THEN 1 ELSE 2 * Pow2(n - 1)

\* buf[pos] ^= (1 << bit), pos counted from 0 as in the tests
FlipBit(buf, pos, bit) ==
  ByteArray([i \in 1..Len(buf) |->
     IF i = pos + 1 THEN Xor(buf[i], Pow2(bit)) ELSE buf[i]])

NoCall == [threw |-> FALSE, value |-> <<>>, text |-> "not called", cause |-> ""]

NoTamper == [kind |-> "none", pos |-> 0, bit |-> 0, n |-> 0]

MaxCalls == 2

CallIds == 1..MaxCalls

\* an activation that has not begun
NoFrame ==
  [op |-> "none", data |-> Undefined, dek |-> Undefined, pc |-> "idle",
   quiet |-> TRUE, key |-> <<>>, iv |-> <<>>, ciphertext |-> <<>>,
   rnd |-> NoCall, produced |-> <<>>, engineRuns |-> 0, error |-> "",
   result |-> NoCall]

(***************************************************************************)
(* State: the arguments and outcome of the latest encrypt call, the buffer *)
(* the caller then holds and what the caller did to it, and the argument   *)
(* and outcome of the latest decrypt call on that buffer.                  *)
(***************************************************************************)
VARIABLES data, dek, rnd, encrypted, encryptedData, tamper, decDek, decrypted

(***************************************************************************)
(* State of calls in progress on one cipher object: calls[c] is the        *)
(* activation of call c, its arguments, the statement it is at, and its    *)
(* local constants key, iv, ciphertext; drawn counts the values the random *)
(* source has given out.  The object itself has no fields.                 *)
(***************************************************************************)
VARIABLES calls, drawn

testVars == <<data, dek, rnd, encrypted, encryptedData, tamper, decDek, decrypted>>

callVars == <<calls, drawn>>

vars == <<data, dek, rnd, encrypted, encryptedData, tamper, decDek, decrypted,
          calls, drawn>>

Init ==
  /\ data = Undefined
  /\ dek = Undefined
  /\ rnd = NoCall
  /\ encrypted = NoCall
  /\ encryptedData = Undefined
  /\ tamper = NoTamper
  /\ decDek = Undefined
  /\ decrypted = NoCall
  /\ calls = [c \in CallIds |-> NoFrame]
  /\ drawn = 0

\* Nothing has been called on this cipher object yet.
Fresh == encrypted = NoCall /\ decrypted = NoCall /\ tamper.kind = "none"

\* const encrypted = cipher.encrypt(data, dek)
Encrypt ==
  /\ Fresh
  /\ \E d \in DataSet, k \in DekSet, r \in RandomSet :
       /\ data' = d
       /\ dek' = k
       /\ rnd' = IF DataEmpty(d) \/ DekEmpty(k) \/ ~IsKeyMaterial(k)
                   THEN NoCall ELSE r
       /\ encrypted' = encrypt(d, k, r)
  /\ encryptedData' = IF encrypted'.threw THEN Undefined ELSE Bytes(encrypted'.value)
  /\ UNCHANGED <<tamper, decDek, decrypted>>
  /\ UNCHANGED callVars

Untampered ==
  /\ tamper.kind = "none"
  /\ encryptedData.type = "Uint8Array"
  /\ decrypted = NoCall

\* encrypted[pos] = encrypted[pos] ^ (1 << bit)
Flip ==
  /\ Untampered
  /\ \E pos \in 0..(Len(encryptedData.val) - 1), bit \in FlipBits :
       /\ encryptedData' = Bytes(FlipBit(encryptedData.val, pos, bit))
       /\ tamper' = [kind |-> "flip", pos |-> pos, bit |-> bit, n |-> 0]
  /\ UNCHANGED <<data, dek, rnd, encrypted, decDek, decrypted>>
  /\ UNCHANGED callVars

\* encrypted.subarray(0, encrypted.length - n)
Truncate ==
  /\ Untampered
  /\ \E n \in {1, 5, BLOCK_SIZE, BLOCK_SIZE + 1, 2 * BLOCK_SIZE} :
       /\ n <= Len(encryptedData.val)
       /\ encryptedData' =
            Bytes(SubSeq(encryptedData.val, 1, Len(encryptedData.val) - n))
       /\ tamper' = [kind |-> "truncate", pos |-> 0, bit |-> 0, n |-> n]
  /\ UNCHANGED <<data, dek, rnd, encrypted, decDek, decrypted>>
  /\ UNCHANGED callVars

\* the buffer followed by extra bytes: zeros, or a copy of its own last two
\* blocks
Extend ==
  /\ Untampered
  /\ \E extra \in {Zeros(1), Zeros(10), Zeros(BLOCK_SIZE),
                   SubSeq(encryptedData.val,
                          Len(encryptedData.val) - 2 * BLOCK_SIZE + 1,
                          Len(encryptedData.val))} :
       /\ encryptedData' = Bytes(encryptedData.val \o extra)
       /\ tamper' = [kind |-> "append", pos |-> 0, bit |-> 0, n |-> Len(extra)]
  /\ UNCHANGED <<data, dek, rnd, encrypted, decDek, decrypted>>
  /\ UNCHANGED callVars

\* a buffer that no encrypt call produced
ForgedSet ==
  {Undefined, Bytes(<<>>), Bytes(<<1, 2, 3>>), Bytes(Zeros(IV_LENGTH)),
   Bytes(Zeros(IV_LENGTH + 1)), Bytes(Zeros(2 * BLOCK_SIZE))}

Forge ==
  /\ Fresh
  /\ \E e \in ForgedSet :
       /\ encryptedData' = e
       /\ tamper' = [kind |-> "forged", pos |-> 0, bit |-> 0, n |-> 0]
  /\ UNCHANGED <<data, dek, rnd, encrypted, decDek, decrypted>>
  /\ UNCHANGED callVars

\* Node's crypto used directly, as the interoperability tests do: the key is
\* createHash('sha256').update(Buffer.from(dek, 'utf-8')).digest()
referenceKey(k) ==
  Sha256(IF k.type = "string" THEN Utf8Encode(k.val) ELSE k.val)

\* Buffer.concat([iv, nodeCipher.update(plaintext), nodeCipher.final()])
referenceEncrypt(plaintext, k, iv) ==
  iv \o createCipheriv(referenceKey(k), iv, plaintext).value

\* createDecipheriv on encrypted.subarray(16) with iv = encrypted.subarray(0, 16)
referenceDecrypt(e, k) ==
  createDecipheriv(referenceKey(k), SubSeq(e, 1, IV_LENGTH),
                   SubSeq(e, IV_LENGTH + 1, Len(e)))

\* the plaintexts, keys and IVs the reference is run on
ReferenceData == {d \in DataSet : d.type = "Uint8Array"}

ReferenceDeks == {k \in DekSet : IsKeyMaterial(k) /\ ~DekEmpty(k)}

ReferenceIVs == {IV(n) : n \in 0..NumIVs}

\* an envelope made without the cipher object, by Node's crypto alone
NodeEncrypt ==
  /\ Fresh
  /\ \E d \in ReferenceData, k \in ReferenceDeks, iv \in ReferenceIVs :
       /\ data' = d
       /\ dek' = k
       /\ encryptedData' = Bytes(referenceEncrypt(d.val, k, iv))
  /\ tamper' = [kind |-> "reference", pos |-> 0, bit |-> 0, n |-> 0]
  /\ UNCHANGED <<rnd, encrypted, decDek, decrypted>>
  /\ UNCHANGED callVars

\* const decrypted = cipher.decrypt(encryptedData, dek)
Decrypt ==
  /\ decrypted = NoCall
  /\ \E k \in DekSet :
       /\ decDek' = k
       /\ decrypted' = decrypt(encryptedData, k)
  /\ UNCHANGED <<data, dek, rnd, encrypted, encryptedData, tamper>>
  /\ UNCHANGED callVars

\* beforeEach: the next test case starts from a new cipher object and new
\* buffers
BeforeEach ==
  /\ ~Fresh
  /\ data' = Undefined
  /\ dek' = Undefined
  /\ rnd' = NoCall
  /\ encrypted' = NoCall
  /\ encryptedData' = Undefined
  /\ tamper' = NoTamper
  /\ decDek' = Undefined
  /\ decrypted' = NoCall
  /\ UNCHANGED callVars

Next ==
  \/ Encrypt \/ Flip \/ Truncate \/ Extend \/ Forge \/ NodeEncrypt
  \/ Decrypt \/ BeforeEach

Spec == Init /\ [][Next]_vars

(***************************************************************************)
(* The two methods statement by statement, for calls that overlap.  A      *)
(* frame f is the activation of one call; a step runs the statement at     *)
(* f.pc and gives the frame after it.  A throw inside the try block goes   *)
(* to the catch of the same call, which ends the call.                     *)
(***************************************************************************)
\* decipher.update(ciphertext): the plaintext of the whole blocks read so
\* far, the last one held back for final() when the input ends on a block
\* boundary
decipherUpdate(key, iv, ciphertext) ==
  LET full == Len(ciphertext) \div BLOCK_SIZE
      n == IF Len(ciphertext) % BLOCK_SIZE = 0 THEN full - 1 ELSE full
  IN  CbcDecrypt(key, iv, SubSeq(ciphertext, 1, BLOCK_SIZE * n))

End(f, res, err) == [f EXCEPT !.pc = "done", !.result = res, !.error = err]

\* encrypt with a fixed IV in place of the value drawn
encryptStepStaticIv(f, r) ==
  CASE f.pc = "validate" ->
         IF DataEmpty(f.data)
           THEN End(f, Threw("Data to encrypt cannot be empty", ""), "")
         ELSE IF DekEmpty(f.dek)
           THEN End(f, Threw("DEK (Data Encryption Key) cannot be empty", ""), "")
         ELSE [f EXCEPT !.pc = "deriveKey"]
    [] f.pc = "deriveKey" ->
         IF ~IsKeyMaterial(f.dek)
           THEN End(f, Threw("Encryption failed: ", BufferFromError), BufferFromError)
         ELSE [f EXCEPT !.key = deriveKey(f.dek), !.pc = "randomBytes"]
    [] f.pc = "randomBytes" ->
         IF r.threw
           THEN End([f EXCEPT !.rnd = r], Threw("Encryption failed: ", r.cause), r.cause)
         ELSE [f EXCEPT !.rnd = r, !.iv = Zeros(IV_LENGTH), !.pc = "cipher"]
    [] f.pc = "cipher" ->
         LET output == createCipheriv(f.key, f.iv, f.data.val)
             g == [f EXCEPT !.engineRuns = @ + 1, !.produced = output.value]
         IN  IF output.threw
               THEN End(g, Threw("Encryption failed: ", output.cause), output.cause)
               ELSE End(g, Returned(f.iv \o output.value), "")


\* encrypt keeping the IV in a field of the object, so that the engine is
\* given the value drawn last on the object, by whichever call
encryptStepIvOnObject(f, r) ==
  CASE f.pc = "validate" ->
         IF DataEmpty(f.data)
           THEN End(f, Threw("Data to encrypt cannot be empty", ""), "")
         ELSE IF DekEmpty(f.dek)
           THEN End(f, Threw("DEK (Data Encryption Key) cannot be empty", ""), "")
         ELSE [f EXCEPT !.pc = "deriveKey"]
    [] f.pc = "deriveKey" ->
         IF ~IsKeyMaterial(f.dek)
           THEN End(f, Threw("Encryption failed: ", BufferFromError), BufferFromError)
         ELSE [f EXCEPT !.key = deriveKey(f.dek), !.pc = "randomBytes"]
    [] f.pc = "randomBytes" ->
         IF r.threw
           THEN End([f EXCEPT !.rnd = r], Threw("Encryption failed: ", r.cause), r.cause)
         ELSE [f EXCEPT !.rnd = r, !.iv = r.value, !.pc = "cipher"]
    [] f.pc = "cipher" ->
         LET output == createCipheriv(f.key, IV(drawn - 1), f.data.val)
             g == [f EXCEPT !.engineRuns = @ + 1, !.produced = output.value]
         IN  IF output.threw
               THEN End(g, Threw("Encryption failed: ", output.cause), output.cause)
               ELSE End(g, Returned(IV(drawn - 1) \o output.value), "")


\* encrypt checking dek only after the key derivation and the IV draw
encryptStepLateDekCheck(f, r) ==
  CASE f.pc = "validate" ->
         IF DataEmpty(f.data)
           THEN End(f, Threw("Data to encrypt cannot be empty", ""), "")
         ELSE [f EXCEPT !.pc = "deriveKey"]
    [] f.pc = "deriveKey" ->
         IF ~DekEmpty(f.dek) /\ ~IsKeyMaterial(f.dek)
           THEN End(f, Threw("Encryption failed: ", BufferFromError), BufferFromError)
         ELSE [f EXCEPT !.key = deriveKey(f.dek), !.pc = "randomBytes"]
    [] f.pc = "randomBytes" ->
         IF DekEmpty(f.dek)
           THEN End(f, Threw("DEK (Data Encryption Key) cannot be empty", ""), "")
         ELSE IF r.threw
           THEN End([f EXCEPT !.rnd = r], Threw("Encryption failed: ", r.cause), r.cause)
         ELSE [f EXCEPT !.rnd = r, !.iv = r.value, !.pc = "cipher"]
    [] f.pc = "cipher" ->
         LET output == createCipheriv(f.key, f.iv, f.data.val)
             g == [f EXCEPT !.engineRuns = @ + 1, !.produced = output.value]
         IN  IF output.threw
               THEN End(g, Threw("Encryption failed: ", output.cause), output.cause)
               ELSE End(g, Returned(f.iv \o output.value), "")


\* encrypt calling randomBytes twice and using the second value
encryptStepDrawsTwice(f, r) ==
  CASE f.pc = "validate" ->
         IF DataEmpty(f.data)
           THEN End(f, Threw("Data to encrypt cannot be empty", ""), "")
         ELSE IF DekEmpty(f.dek)
           THEN End(f, Threw("DEK (Data Encryption Key) cannot be empty", ""), "")
         ELSE [f EXCEPT !.pc = "deriveKey"]
    [] f.pc = "deriveKey" ->
         IF ~IsKeyMaterial(f.dek)
           THEN End(f, Threw("Encryption failed: ", BufferFromError), BufferFromError)
         ELSE [f EXCEPT !.key = deriveKey(f.dek), !.pc = "randomBytes"]
    [] f.pc = "randomBytes" ->
         IF r.threw
           THEN End([f EXCEPT !.rnd = r], Threw("Encryption failed: ", r.cause), r.cause)
         ELSE IF f.rnd = NoCall THEN [f EXCEPT !.rnd = r]
         ELSE [f EXCEPT !.rnd = r, !.iv = r.value, !.pc = "cipher"]
    [] f.pc = "cipher" ->
         LET output == createCipheriv(f.key, f.iv, f.data.val)
             g == [f EXCEPT !.engineRuns = @ + 1, !.produced = output.value]
         IN  IF output.threw
               THEN End(g, Threw("Encryption failed: ", output.cause), output.cause)
               ELSE End(g, Returned(f.iv \o output.value), "")

\* r is what randomBytes does when the step is the IV draw
encryptStep(f, r) ==
  CASE f.pc = "validate" ->
         IF DataEmpty(f.data)
           THEN End(f, Threw("Data to encrypt cannot be empty", ""), "")
         ELSE IF DekEmpty(f.dek)
           THEN End(f, Threw("DEK (Data Encryption Key) cannot be empty", ""), "")
         ELSE [f EXCEPT !.pc = "deriveKey"]
    [] f.pc = "deriveKey" ->
         IF ~IsKeyMaterial(f.dek)
           THEN End(f, Threw("Encryption failed: ", BufferFromError), BufferFromError)
         ELSE [f EXCEPT !.key = deriveKey(f.dek), !.pc = "randomBytes"]
    [] f.pc = "randomBytes" ->
         IF r.threw
           THEN End([f EXCEPT !.rnd = r], Threw("Encryption failed: ", r.cause), r.cause)
         ELSE [f EXCEPT !.rnd = r, !.iv = r.value, !.pc = "cipher"]
    [] f.pc = "cipher" ->
         LET output == createCipheriv(f.key, f.iv, f.data.val)
             g == [f EXCEPT !.engineRuns = @ + 1, !.produced = output.value]
         IN  IF output.threw
               THEN End(g, Threw("Encryption failed: ", output.cause), output.cause)
               ELSE End(g, Returned(f.iv \o output.value), "")

\* decrypt reusing the key that a finished call on the object derived
decryptStepCachedKey(f) ==
  CASE f.pc = "validate" ->
         IF f.data.type = "undefined" \/ Len(f.data.val) <= IV_LENGTH
           THEN End(f, Threw("Encrypted data is too short or empty (must be > 16 bytes)", ""), "")
         ELSE IF DekEmpty(f.dek)
           THEN End(f, Threw("DEK (Data Encryption Key) cannot be empty", ""), "")
         ELSE [f EXCEPT !.pc = "slice"]
    [] f.pc = "slice" ->
         [f EXCEPT !.iv = SubSeq(f.data.val, 1, IV_LENGTH),
                   !.ciphertext = SubSeq(f.data.val, IV_LENGTH + 1, Len(f.data.val)),
                   !.pc = "deriveKey"]
    [] f.pc = "deriveKey" ->
         IF ~IsKeyMaterial(f.dek)
           THEN End(f, Threw("Decryption failed: Wrong key or tampered data", ""),
                    BufferFromError)
         ELSE LET cached == {x \in CallIds : calls[x].pc = "done" /\ calls[x].key # <<>>}
              IN  [f EXCEPT !.key = IF cached = {} THEN deriveKey(f.dek)
                                    ELSE calls[CHOOSE x \in cached : TRUE].key,
                            !.pc = "decipher"]
    [] f.pc = "decipher" ->
         LET output == createDecipheriv(f.key, f.iv, f.ciphertext)
             g == [f EXCEPT !.engineRuns = @ + 1,
                            !.produced = decipherUpdate(f.key, f.iv, f.ciphertext)]
         IN  IF output.threw
               THEN End(g, Threw("Decryption failed: Wrong key or tampered data", ""),
                        output.cause)
               ELSE End(g, Returned(output.value), "")


\* decrypt returning what update() gave when final() throws
decryptStepReturnsPartial(f) ==
  CASE f.pc = "validate" ->
         IF f.data.type = "undefined" \/ Len(f.data.val) <= IV_LENGTH
           THEN End(f, Threw("Encrypted data is too short or empty (must be > 16 bytes)", ""), "")
         ELSE IF DekEmpty(f.dek)
           THEN End(f, Threw("DEK (Data Encryption Key) cannot be empty", ""), "")
         ELSE [f EXCEPT !.pc = "slice"]
    [] f.pc = "slice" ->
         [f EXCEPT !.iv = SubSeq(f.data.val, 1, IV_LENGTH),
                   !.ciphertext = SubSeq(f.data.val, IV_LENGTH + 1, Len(f.data.val)),
                   !.pc = "deriveKey"]
    [] f.pc = "deriveKey" ->
         IF ~IsKeyMaterial(f.dek)
           THEN End(f, Threw("Decryption failed: Wrong key or tampered data", ""),
                    BufferFromError)
         ELSE [f EXCEPT !.key = deriveKey(f.dek), !.pc = "decipher"]
    [] f.pc = "decipher" ->
         LET output == createDecipheriv(f.key, f.iv, f.ciphertext)
             g == [f EXCEPT !.engineRuns = @ + 1,
                            !.produced = decipherUpdate(f.key, f.iv, f.ciphertext)]
         IN  IF output.threw
               THEN End(g, Returned(g.produced), output.cause)
               ELSE End(g, Returned(output.value), "")

\* decrypt deciphering in place, over the bytes of the buffer it was given
decryptStepInPlace(f) ==
  CASE f.pc = "validate" ->
         IF f.data.type = "undefined" \/ Len(f.data.val) <= IV_LENGTH
           THEN End(f, Threw("Encrypted data is too short or empty (must be > 16 bytes)", ""), "")
         ELSE IF DekEmpty(f.dek)
           THEN End(f, Threw("DEK (Data Encryption Key) cannot be empty", ""), "")
         ELSE [f EXCEPT !.pc = "slice"]
    [] f.pc = "slice" ->
         [f EXCEPT !.iv = SubSeq(f.data.val, 1, IV_LENGTH),
                   !.ciphertext = SubSeq(f.data.val, IV_LENGTH + 1, Len(f.data.val)),
                   !.pc = "deriveKey"]
    [] f.pc = "deriveKey" ->
         IF ~IsKeyMaterial(f.dek)
           THEN End(f, Threw("Decryption failed: Wrong key or tampered data", ""),
                    BufferFromError)
         ELSE [f EXCEPT !.key = deriveKey(f.dek), !.pc = "decipher"]
    [] f.pc = "decipher" ->
         LET output == createDecipheriv(f.key, f.iv, f.ciphertext)
             blocks == decipherUpdate(f.key, f.iv, f.ciphertext)
             g == [f EXCEPT !.engineRuns = @ + 1,
                            !.produced = blocks,
                            !.data = Bytes(f.iv \o blocks
                                             \o SubSeq(f.ciphertext, Len(blocks) + 1,
                                                       Len(f.ciphertext)))]
         IN  IF output.threw
               THEN End(g, Threw("Decryption failed: Wrong key or tampered data", ""),
                        output.cause)
               ELSE End(g, Returned(output.value), "")

decryptStep(f) ==
  CASE f.pc = "validate" ->
         IF f.data.type = "undefined" \/ Len(f.data.val) <= IV_LENGTH
           THEN End(f, Threw("Encrypted data is too short or empty (must be > 16 bytes)", ""), "")
         ELSE IF DekEmpty(f.dek)
           THEN End(f, Threw("DEK (Data Encryption Key) cannot be empty", ""), "")
         ELSE [f EXCEPT !.pc = "slice"]
    [] f.pc = "slice" ->
         [f EXCEPT !.iv = SubSeq(f.data.val, 1, IV_LENGTH),
                   !.ciphertext = SubSeq(f.data.val, IV_LENGTH + 1, Len(f.data.val)),
                   !.pc = "deriveKey"]
    [] f.pc = "deriveKey" ->
         IF ~IsKeyMaterial(f.dek)
           THEN End(f, Threw("Decryption failed: Wrong key or tampered data", ""),
                    BufferFromError)
         ELSE [f EXCEPT !.key = deriveKey(f.dek), !.pc = "decipher"]
    [] f.pc = "decipher" ->
         LET output == createDecipheriv(f.key, f.iv, f.ciphertext)
             g == [f EXCEPT !.engineRuns = @ + 1,
                            !.produced = decipherUpdate(f.key, f.iv, f.ciphertext)]
         IN  IF output.threw
               THEN End(g, Threw("Decryption failed: Wrong key or tampered data", ""),
                        output.cause)
               ELSE End(g, Returned(output.value), "")

\* arguments of the calls
CallData ==
  {Bytes(<<1, 2, 3, 4, 5>>), Bytes(Plain(BLOCK_SIZE, "count")), Bytes(<<>>)}

CallDeks == {Text(<<107>>), Text(<<108>>), Text(<<>>), Number42}

\* buffers given to decrypt: what an encrypt call returned, 16 zero bytes,
\* 33 zero bytes
CallBuffers ==
  {Bytes(calls[c].result.value) :
     c \in {x \in CallIds : calls[x].op = "encrypt" /\ calls[x].pc = "done"
                              /\ ~calls[x].result.threw}}
    \cup {Bytes(Zeros(IV_LENGTH)), Bytes(Zeros(2 * BLOCK_SIZE + 1))}

InProgress(c) == calls[c].pc \notin {"idle", "done"}

\* calls begin in the order of their numbers
CanBegin(c) ==
  /\ calls[c].op = "none"
  /\ \A b \in CallIds : b < c => calls[b].op # "none"

\* the frame of a call that begins: its arguments are bound and it stands at
\* its first statement; quiet says that no other call is in progress
BeginFrame(op, d, k) ==
  [NoFrame EXCEPT !.op = op, !.data = d, !.dek = k, !.pc = "validate",
                  !.quiet = \A b \in CallIds : ~InProgress(b)]

\* cipher.encrypt(d, k) is called
CallEncrypt ==
  /\ \E c \in CallIds, d \in CallData, k \in CallDeks :
       /\ CanBegin(c)
       /\ calls' = [calls EXCEPT ![c] = BeginFrame("encrypt", d, k)]
  /\ UNCHANGED drawn
  /\ UNCHANGED testVars

\* cipher.decrypt(e, k) is called
CallDecrypt ==
  /\ \E c \in CallIds, e \in CallBuffers, k \in CallDeks :
       /\ CanBegin(c)
       /\ calls' = [calls EXCEPT ![c] = BeginFrame("decrypt", e, k)]
  /\ UNCHANGED drawn
  /\ UNCHANGED testVars

\* randomBytes(16): the next value of the source, or a failure of the source
RandomOutcomes == {Returned(IV(drawn)), Threw("", "entropy source failure")}

EncryptStep ==
  /\ \E c \in CallIds :
       /\ calls[c].op = "encrypt"
       /\ InProgress(c)
       /\ \E r \in (IF calls[c].pc = "randomBytes" THEN RandomOutcomes ELSE {NoCall}) :
            /\ calls' = [calls EXCEPT ![c] = encryptStep(@, r)]
            /\ drawn' = IF calls[c].pc = "randomBytes" /\ ~r.threw
                          THEN drawn + 1 ELSE drawn
  /\ UNCHANGED testVars

DecryptStep ==
  /\ \E c \in CallIds :
       /\ calls[c].op = "decrypt"
       /\ InProgress(c)
       /\ calls' = [calls EXCEPT ![c] = decryptStep(@)]
  /\ UNCHANGED drawn
  /\ UNCHANGED testVars

NextCall == CallEncrypt \/ CallDecrypt \/ EncryptStep \/ DecryptStep

SpecCalls == Init /\ [][NextCall]_vars

(***************************************************************************)
(* NaclCipher (packages/core/src/cipher/NaclCipher.ts), the other          *)
(* implementation of the Cipher interface, used as the README uses it:     *)
(* the same calls on an object made by new NaclCipher().                   *)
(***************************************************************************)
\* const encrypted = cipher.encrypt(data, dek), cipher a NaclCipher
NaclEncrypt ==
  /\ Fresh
  /\ \E d \in DataSet, k \in DekSet :
       /\ data' = d
       /\ dek' = k
       /\ encrypted' = naclEncrypt(d, k)
  /\ encryptedData' = IF encrypted'.threw THEN Undefined ELSE Bytes(encrypted'.value)
  /\ UNCHANGED <<rnd, tamper, decDek, decrypted>>
  /\ UNCHANGED callVars

\* const decrypted = cipher.decrypt(encryptedData, dek), cipher a NaclCipher
NaclDecrypt ==
  /\ decrypted = NoCall
  /\ \E k \in DekSet :
       /\ decDek' = k
       /\ decrypted' = naclDecrypt(encryptedData, k)
  /\ UNCHANGED <<data, dek, rnd, encrypted, encryptedData, tamper>>
  /\ UNCHANGED callVars

NextNacl == NaclEncrypt \/ Forge \/ NaclDecrypt \/ BeforeEach

SpecNacl == Init /\ [][NextNacl]_vars

(***************************************************************************)
(* Vocabulary of the properties                                            *)
(***************************************************************************)
InvalidInputTexts ==
  {"Data to encrypt cannot be empty",
   "DEK (Data Encryption Key) cannot be empty",
   "Encrypted data is too short or empty (must be > 16 bytes)"}

ErrorKind(res) ==
  IF ~res.threw THEN "none"
  ELSE IF res.text \in InvalidInputTexts THEN "InvalidInput"
  ELSE IF res.text = "Encryption failed: " THEN "EncryptionFailed"
  ELSE IF res.text = "Decryption failed: Wrong key or tampered data"
    THEN "DecryptionFailed"
  ELSE "other"

\* encrypt returned an envelope
EncOk == encrypted # NoCall /\ ~encrypted.threw

\* the state right after encrypt returned
JustEncrypted == EncOk /\ tamper.kind = "none" /\ decrypted = NoCall

\* decrypt has been called on the buffer
DecCalled == decrypted # NoCall

\* decrypt was called on the envelope exactly as encrypt returned it
DecOfEnvelope == EncOk /\ tamper.kind = "none" /\ DecCalled

\* the bytes a key material stands for
KeyBytes(k) == IF k.type = "string" THEN Utf8Encode(k.val) ELSE k.val

CeilDiv(n, d) == (n + d - 1) \div d

(***************************************************************************)
(* C1  Round trip: decrypting the envelope that encrypt returned for a     *)
(* non-empty plaintext p and a non-empty key k, with the same k, succeeds  *)
(* and returns exactly p, whatever the bytes and the length of p, the form *)
(* of k and the IV drawn.                                                  *)
(***************************************************************************)
C1_RoundTrip ==
  (DecOfEnvelope /\ decDek = dek)
    => (~decrypted.threw /\ decrypted.value = data.val)

C1_Witness ==
  /\ DecOfEnvelope
  /\ decDek = dek
  /\ dek.type = "Uint8Array"
  /\ Len(data.val) = 2 * BLOCK_SIZE
  /\ rnd.value # Zeros(IV_LENGTH)
  /\ decrypted.value = data.val

(***************************************************************************)
(* C2  Length law: the envelope has 16 + 16 * ceil((len(p) + 1) / 16)      *)
(* bytes, so a block-aligned plaintext gets one whole extra block.         *)
(***************************************************************************)
C2_LengthLaw ==
  JustEncrypted
    => Len(encrypted.value)
         = IV_LENGTH + BLOCK_SIZE * CeilDiv(Len(data.val) + 1, BLOCK_SIZE)

C2_Witness ==
  /\ JustEncrypted
  /\ Len(data.val) = BLOCK_SIZE
  /\ Len(encrypted.value) = IV_LENGTH + 2 * BLOCK_SIZE

(***************************************************************************)
(* C3  Envelope layout: the value encrypt returns is IV || ciphertext: its *)
(* first 16 bytes are the IV drawn in that call, the rest is the CBC       *)
(* encryption of the plaintext under that IV, a positive multiple of 16    *)
(* bytes, and nothing else is in it.                                       *)
(***************************************************************************)
C3_EnvelopeLayout ==
  JustEncrypted
    => LET e == encrypted.value
           n == Len(e) - IV_LENGTH
       IN  /\ n > 0
           /\ n % BLOCK_SIZE = 0
           /\ SubSeq(e, 1, IV_LENGTH) = rnd.value
           /\ SubSeq(e, IV_LENGTH + 1, Len(e))
                = CbcEncrypt(deriveKey(dek), SubSeq(e, 1, IV_LENGTH),
                             Pkcs7Pad(data.val))

C3_Witness ==
  /\ JustEncrypted
  /\ rnd.value = IV(1)
  /\ SubSeq(encrypted.value, 1, IV_LENGTH) = IV(1)
  /\ Len(encrypted.value) = IV_LENGTH + BLOCK_SIZE

DecryptionFailedError == Threw("Decryption failed: Wrong key or tampered data", "")

(***************************************************************************)
(* C4  Key sensitivity: decrypting the envelope of encrypt(p, k1) with a   *)
(* non-empty key k2 that differs from k1 fails with DecryptionFailed and   *)
(* never returns a plaintext.                                              *)
(***************************************************************************)
C4_KeySensitivity ==
  (DecOfEnvelope /\ ~DekEmpty(decDek) /\ KeyBytes(decDek) # KeyBytes(dek))
    => decrypted = DecryptionFailedError

(***************************************************************************)
(* C5  Tamper detection in the IV: after one bit of bytes 0..15 of a valid *)
(* envelope is flipped, decrypt with the encryption key fails with         *)
(* DecryptionFailed and returns no plaintext.                              *)
(***************************************************************************)
C5_IvTamperDetected ==
  (EncOk /\ tamper.kind = "flip" /\ tamper.pos < IV_LENGTH
     /\ DecCalled /\ decDek = dek)
    => decrypted = DecryptionFailedError

(***************************************************************************)
(* C6  Tamper detection in the ciphertext: after one bit of a byte at      *)
(* offset >= 16 of a valid envelope is flipped, decrypt with the           *)
(* encryption key fails with DecryptionFailed and returns no plaintext.    *)
(***************************************************************************)
C6_CiphertextTamperDetected ==
  (EncOk /\ tamper.kind = "flip" /\ tamper.pos >= IV_LENGTH
     /\ DecCalled /\ decDek = dek)
    => decrypted = DecryptionFailedError

(***************************************************************************)
(* C7  Truncation and extension: after trailing bytes are removed from a   *)
(* valid envelope, or bytes are appended to it, decrypt with the           *)
(* encryption key fails and returns no plaintext, for every number of      *)
(* bytes removed or added.                                                 *)
(***************************************************************************)
C7_TruncationExtensionDetected ==
  (EncOk /\ tamper.kind \in {"truncate", "append"} /\ tamper.n > 0
     /\ DecCalled /\ decDek = dek)
    => decrypted.threw

(***************************************************************************)
(* C8  Encrypt input validation: an empty plaintext makes encrypt throw    *)
(* 'Data to encrypt cannot be empty'; an empty string or empty byte array  *)
(* as key, with a plaintext that passed, makes it throw 'DEK (Data         *)
(* Encryption Key) cannot be empty'; both are InvalidInput, the two        *)
(* messages differ, and the caller gets no envelope.                       *)
(***************************************************************************)
C8_EncryptValidation ==
  /\ (encrypted # NoCall /\ DataEmpty(data))
       => /\ encrypted = Threw("Data to encrypt cannot be empty", "")
          /\ ErrorKind(encrypted) = "InvalidInput"
          /\ encryptedData = Undefined
  /\ (encrypted # NoCall /\ ~DataEmpty(data) /\ DekEmpty(dek))
       => /\ encrypted = Threw("DEK (Data Encryption Key) cannot be empty", "")
          /\ ErrorKind(encrypted) = "InvalidInput"
          /\ encryptedData = Undefined

C8_Witness ==
  /\ encrypted # NoCall
  /\ ~DataEmpty(data)
  /\ dek = Bytes(<<>>)
  /\ encrypted.threw
  /\ encrypted.text = "DEK (Data Encryption Key) cannot be empty"

(***************************************************************************)
(* C9  Decrypt length precondition: decrypt of a buffer of at most 16      *)
(* bytes (0 and 16 included) throws the InvalidInput error 'Encrypted data *)
(* is too short or empty ...' whatever the key: right, wrong or empty.     *)
(***************************************************************************)
C9_DecryptLengthCheck ==
  (DecCalled /\ (encryptedData.type = "undefined"
                   \/ Len(encryptedData.val) <= IV_LENGTH))
    => /\ decrypted
            = Threw("Encrypted data is too short or empty (must be > 16 bytes)", "")
       /\ ErrorKind(decrypted) = "InvalidInput"

C9_Witness ==
  /\ DecCalled
  /\ encryptedData.type = "Uint8Array"
  /\ Len(encryptedData.val) = IV_LENGTH
  /\ DekEmpty(decDek)
  /\ decrypted.text = "Encrypted data is too short or empty (must be > 16 bytes)"

(***************************************************************************)
(* C10  Decrypt key precondition: decrypt of a buffer longer than 16       *)
(* bytes with an empty string or empty byte array as key throws the        *)
(* InvalidInput error 'DEK (Data Encryption Key) cannot be empty', not     *)
(* DecryptionFailed, whatever the buffer holds.                            *)
(***************************************************************************)
C10_DecryptKeyCheck ==
  (DecCalled /\ encryptedData.type = "Uint8Array"
     /\ Len(encryptedData.val) > IV_LENGTH /\ DekEmpty(decDek))
    => /\ decrypted = Threw("DEK (Data Encryption Key) cannot be empty", "")
       /\ ErrorKind(decrypted) = "InvalidInput"

C10_Witness ==
  /\ DecCalled
  /\ tamper.kind = "flip"
  /\ Len(encryptedData.val) > IV_LENGTH
  /\ decDek = Bytes(<<>>)
  /\ decrypted.text = "DEK (Data Encryption Key) cannot be empty"

(***************************************************************************)
(* C11  Misaligned ciphertext: decrypt of a buffer longer than 16 bytes    *)
(* whose length is not a multiple of 16, with a non-empty key, throws      *)
(* DecryptionFailed: not InvalidInput, no other kind, and no plaintext.    *)
(***************************************************************************)
Misaligned ==
  /\ encryptedData.type = "Uint8Array"
  /\ Len(encryptedData.val) > IV_LENGTH
  /\ Len(encryptedData.val) % BLOCK_SIZE # 0

C11_MisalignedFails ==
  (DecCalled /\ Misaligned /\ ~DekEmpty(decDek))
    => /\ decrypted = DecryptionFailedError
       /\ ErrorKind(decrypted) = "DecryptionFailed"

C11_Witness ==
  /\ DecCalled
  /\ EncOk
  /\ tamper.kind = "truncate"
  /\ Len(encryptedData.val) = 2 * BLOCK_SIZE + 15
  /\ decDek = dek
  /\ decrypted = DecryptionFailedError

(***************************************************************************)
(* C12  No oracle: every failure of decrypt after both argument checks     *)
(* passed is the one error 'Decryption failed: Wrong key or tampered       *)
(* data', with nothing in it of the cause: wrong key, changed IV, changed  *)
(* ciphertext, bad padding, misaligned length or a key of the wrong type   *)
(* all give the same error value.                                          *)
(***************************************************************************)
DecValidated ==
  /\ DecCalled
  /\ encryptedData.type = "Uint8Array"
  /\ Len(encryptedData.val) > IV_LENGTH
  /\ ~DekEmpty(decDek)

C14_Interoperable ==
  /\ JustEncrypted
       => /\ encrypted.value
               = referenceEncrypt(data.val, dek,
                                  SubSeq(encrypted.value, 1, IV_LENGTH))
          /\ referenceDecrypt(encrypted.value, dek) = Returned(data.val)
  /\ (tamper.kind = "reference" /\ DecCalled /\ decDek = dek)
       => decrypted = Returned(data.val)

\* the reference's envelope has an IV that encrypt never drew here
C14_Witness ==
  /\ tamper.kind = "reference"
  /\ DecCalled
  /\ decDek = dek
  /\ dek.type = "string"
  /\ SubSeq(encryptedData.val, 1, IV_LENGTH) = IV(NumIVs)
  /\ Len(data.val) = BLOCK_SIZE + 1
  /\ decrypted = Returned(data.val)

(***************************************************************************)
(* C17  Error kinds per operation: encrypt fails only with InvalidInput or *)
(* EncryptionFailed, decrypt only with InvalidInput or DecryptionFailed;   *)
(* the failure is InvalidInput exactly when an argument check fails, so a  *)
(* precondition failure is never reported as a cryptographic one nor the   *)
(* reverse.                                                                *)
(***************************************************************************)
EncCalled == encrypted # NoCall

DecTooShort ==
  encryptedData.type = "undefined" \/ Len(encryptedData.val) <= IV_LENGTH

C17_ErrorKinds ==
  /\ (EncCalled /\ encrypted.threw)
       => /\ ErrorKind(encrypted) \in {"InvalidInput", "EncryptionFailed"}
          /\ (ErrorKind(encrypted) = "InvalidInput")
               <=> (DataEmpty(data) \/ DekEmpty(dek))
  /\ (DecCalled /\ decrypted.threw)
       => /\ ErrorKind(decrypted) \in {"InvalidInput", "DecryptionFailed"}
          /\ (ErrorKind(decrypted) = "InvalidInput")
               <=> (DecTooShort \/ DekEmpty(decDek))

C17_Witness ==
  /\ EncCalled
  /\ dek = Number42
  /\ ErrorKind(encrypted) = "EncryptionFailed"
  /\ DecCalled
  /\ decDek = Text(<<>>)
  /\ ErrorKind(decrypted) = "InvalidInput"

(***************************************************************************)
(* C20  EncryptionFailed wrapping: when, after both argument checks        *)
(* passed, key derivation or the IV draw throws, encrypt throws            *)
(* 'Encryption failed: ' followed by the message of what was thrown, and   *)
(* the caller gets no envelope.                                            *)
(***************************************************************************)
EncValidated == EncCalled /\ ~DataEmpty(data) /\ ~DekEmpty(dek)

C20_EncryptionFailedWraps ==
  /\ (EncValidated /\ ~IsKeyMaterial(dek))
       => /\ encrypted = Threw("Encryption failed: ", BufferFromError)
          /\ encryptedData = Undefined
  /\ (EncValidated /\ IsKeyMaterial(dek) /\ rnd.threw)
       => /\ encrypted = Threw("Encryption failed: ", rnd.cause)
          /\ encryptedData = Undefined
  /\ (EncValidated /\ encrypted.threw)
       => /\ encrypted.text = "Encryption failed: "
          /\ encrypted.cause # ""

C20_Witness ==
  /\ EncValidated
  /\ rnd = Threw("", "entropy source failure")
  /\ encrypted = Threw("Encryption failed: ", "entropy source failure")
  /\ ErrorKind(encrypted) = "EncryptionFailed"

(***************************************************************************)
(* Vocabulary of the properties of overlapping calls                       *)
(***************************************************************************)
Done(c) == calls[c].pc = "done"

\* call c was an encrypt call that returned an envelope
EncReturned(c) ==
  calls[c].op = "encrypt" /\ Done(c) /\ ~calls[c].result.threw

\* what the call gives when it is the only call ever made on a new object,
\* with the same arguments and the same outcome of randomBytes
Alone(f) ==
  IF f.op = "encrypt" THEN encrypt(f.data, f.dek, f.rnd)
  ELSE decrypt(f.data, f.dek)

C15_Stateless ==
  \A c \in CallIds :
    (c > 1 /\ Done(c) /\ calls[c].quiet)
      => /\ calls[c].result = Alone(calls[c])
         /\ EncReturned(c)
              => decrypt(Bytes(calls[c].result.value), calls[c].dek)
                   = Returned(calls[c].data.val)

\* a decrypt with the right key after an encrypt under another key
C15_Witness ==
  /\ EncReturned(1)
  /\ calls[1].dek = Text(<<108>>)
  /\ calls[2].op = "decrypt"
  /\ Done(2)
  /\ calls[2].quiet
  /\ Len(calls[2].data.val) = 2 * BLOCK_SIZE + 1
  /\ calls[2].dek = Text(<<107>>)
  /\ calls[2].result = DecryptionFailedError

(***************************************************************************)
(* C16  Concurrency: however the statements of the calls on one object are *)
(* interleaved, every call ends with what it gives when run alone with its *)
(* arguments and its IV draw, and while it runs its key is the one derived *)
(* from its own dek and its IV the one it drew itself.                     *)
(***************************************************************************)
C16_Isolation ==
  \A c \in CallIds :
    /\ Done(c) => calls[c].result = Alone(calls[c])
    /\ calls[c].key # <<>> => calls[c].key = deriveKey(calls[c].dek)
    /\ (calls[c].op = "encrypt" /\ calls[c].iv # <<>>)
         => calls[c].iv = calls[c].rnd.value
    /\ EncReturned(c)
         => SubSeq(calls[c].result.value, 1, IV_LENGTH) = calls[c].rnd.value

\* two encrypt calls under different keys, the second begun while the first
\* was running, the first ended with the IV it drew after the second's
C16_Witness ==
  /\ EncReturned(1)
  /\ EncReturned(2)
  /\ ~calls[2].quiet
  /\ calls[1].dek # calls[2].dek
  /\ calls[1].rnd.value = IV(1)
  /\ calls[2].rnd.value = IV(0)

(***************************************************************************)
(* C18  Terminal failures, no partial results: a call that has ended has   *)
(* one outcome, a returned array or one thrown error, and keeps it; a call *)
(* that has not ended has none; when something was thrown inside decrypt   *)
(* the caller gets the error and none of the bytes the engine had put out  *)
(* before; and the engine is run at most once in a call.                   *)
(***************************************************************************)
C18_Outcome ==
  \A c \in CallIds :
    /\ calls[c].engineRuns <= 1
    /\ Done(c) <=> calls[c].result # NoCall
    /\ (Done(c) /\ calls[c].result.threw) => calls[c].result.value = <<>>
    /\ (Done(c) /\ calls[c].error # "")
         => /\ calls[c].result.threw
            /\ calls[c].result.value = <<>>
    /\ (Done(c) /\ ~calls[c].result.threw /\ calls[c].op # "none")
         => calls[c].engineRuns = 1

C18_TerminalNoPartial ==
  /\ []C18_Outcome
  /\ [][\A c \in CallIds : Done(c) => calls'[c] = calls[c]]_vars

\* the engine had put out 16 bytes when final() threw
C18_Witness ==
  /\ calls[1].op = "decrypt"
  /\ Done(1)
  /\ calls[1].engineRuns = 1
  /\ Len(calls[1].produced) = BLOCK_SIZE
  /\ calls[1].error = "wrong final block length"
  /\ calls[1].result = DecryptionFailedError

(***************************************************************************)
(* C19  Validation precedes cryptographic work: a call that ended with     *)
(* InvalidInput, and a call still at its argument checks, has derived no   *)
(* key, drawn no IV and not run the engine.                                *)
(***************************************************************************)
NoCryptoWork(f) ==
  /\ f.key = <<>>
  /\ f.iv = <<>>
  /\ f.rnd = NoCall
  /\ f.engineRuns = 0
  /\ f.produced = <<>>

C19_ValidationFirst ==
  \A c \in CallIds :
    /\ (Done(c) /\ ErrorKind(calls[c].result) = "InvalidInput")
         => NoCryptoWork(calls[c])
    /\ calls[c].pc = "validate" => NoCryptoWork(calls[c])
    /\ (Done(c) /\ (DataEmpty(calls[c].data)
                      \/ DekEmpty(calls[c].dek)
                      \/ (calls[c].op = "decrypt"
                            /\ Len(calls[c].data.val) <= IV_LENGTH)))
         => ErrorKind(calls[c].result) = "InvalidInput"

\* an encrypt and a decrypt, both stopped by the check of dek, while the
\* source has given out nothing
C19_Witness ==
  /\ calls[1].op = "encrypt"
  /\ Done(1)
  /\ calls[1].result = Threw("DEK (Data Encryption Key) cannot be empty", "")
  /\ calls[2].op = "decrypt"
  /\ Done(2)
  /\ calls[2].result = Threw("DEK (Data Encryption Key) cannot be empty", "")
  /\ drawn = 0

(***************************************************************************)
(* C21  Side effects: the random source has given out exactly one value of *)
(* 16 bytes for every encrypt call that got as far as its IV, one for      *)
(* every envelope returned; decrypt never draws, and two decrypt calls     *)
(* with the same buffer and key end the same way.                          *)
(***************************************************************************)
Drew(c) == calls[c].rnd # NoCall /\ ~calls[c].rnd.threw

C21_SideEffects ==
  /\ drawn = Cardinality({c \in CallIds : Drew(c)})
  /\ \A c \in CallIds :
       /\ EncReturned(c) => (Drew(c) /\ Len(calls[c].rnd.value) = IV_LENGTH)
       /\ calls[c].op = "decrypt" => calls[c].rnd = NoCall
  /\ \A c, d \in CallIds :
       (calls[c].op = "decrypt" /\ calls[d].op = "decrypt" /\ Done(c) /\ Done(d)
          /\ calls[c].data = calls[d].data /\ calls[c].dek = calls[d].dek)
         => calls[c].result = calls[d].result

\* one envelope returned and decrypted, one value drawn
C21_Witness ==
  /\ EncReturned(1)
  /\ calls[2].op = "decrypt"
  /\ Done(2)
  /\ calls[2].result = Returned(calls[1].data.val)
  /\ drawn = 1

(***************************************************************************)
(* C22  Plaintext is non-empty on both sides: encrypt returns an envelope  *)
(* only for a non-empty plaintext, and every array decrypt returns, for    *)
(* any buffer and key, an envelope made by Node's crypto alone included,   *)
(* has at least one byte.                                                  *)
(***************************************************************************)
C22_PlaintextNonEmpty ==
  /\ (EncCalled /\ ~encrypted.threw) => Len(data.val) > 0
  /\ (DecCalled /\ ~decrypted.threw) => Len(decrypted.value) > 0

(***************************************************************************)
(* C23  Ciphers are interchangeable: with the object a NaclCipher instead  *)
(* of an AES256Cipher and nothing else changed, for every data and dek     *)
(* that AES256Cipher takes through encrypt and decrypt back to the data,   *)
(* encrypt returns a value and decrypt of it with the same dek returns the *)
(* data.                                                                   *)
(***************************************************************************)
AesRoundTrips(d, k) ==
  LET e == encrypt(d, k, Returned(Zeros(IV_LENGTH)))
  IN  ~e.threw /\ decrypt(Bytes(e.value), k) = Returned(d.val)

C23_Interchangeable ==
  (EncCalled /\ AesRoundTrips(data, dek))
    => /\ ~encrypted.threw
       /\ (DecCalled /\ decDek = dek) => decrypted = Returned(data.val)

C24_KeyCanonical ==
  (DecOfEnvelope /\ IsKeyMaterial(decDek) /\ KeyBytes(decDek) = KeyBytes(dek))
    => /\ deriveKey(decDek) = deriveKey(dek)
       /\ decrypted = Returned(data.val)

\* encrypted under the string U+00E9, decrypted under the bytes C3 A9
C24_Witness ==
  /\ DecOfEnvelope
  /\ dek = Text(<<233>>)
  /\ decDek = Bytes(<<195, 169>>)
  /\ decrypted = Returned(data.val)

(***************************************************************************)
(* C25  Validation order when both arguments are invalid: encrypt with an  *)
(* empty plaintext and an empty key throws the plaintext message; decrypt  *)
(* with a buffer of at most 16 bytes and an empty key throws the buffer    *)
(* message; one error each, the data check coming first.                   *)
(***************************************************************************)
C25_DataCheckedFirst ==
  /\ (EncCalled /\ DataEmpty(data) /\ DekEmpty(dek))
       => encrypted = Threw("Data to encrypt cannot be empty", "")
  /\ (DecCalled /\ DecTooShort /\ DekEmpty(decDek))
       => decrypted
            = Threw("Encrypted data is too short or empty (must be > 16 bytes)", "")

C25_Witness ==
  /\ EncCalled
  /\ data = Bytes(<<>>)
  /\ dek = Text(<<>>)
  /\ encrypted.text = "Data to encrypt cannot be empty"
  /\ DecCalled
  /\ decDek = Bytes(<<>>)
  /\ decrypted.text = "Encrypted data is too short or empty (must be > 16 bytes)"

(***************************************************************************)
(* C26  CBC malleability through the IV: after one bit is flipped in a     *)
(* byte of the IV whose position is below min(len(p), 16), decrypt with    *)
(* the encryption key throws nothing and returns p with that one bit       *)
(* flipped in its first block, the same length and every other bit the     *)
(* same.                                                                   *)
(***************************************************************************)
MinOf(a, b) == IF a < b THEN a ELSE b

C28_DecryptedLength ==
  (DecCalled /\ ~decrypted.threw)
    => LET n == Len(encryptedData.val)
       IN  /\ n % BLOCK_SIZE = 0
           /\ n >= 2 * BLOCK_SIZE
           /\ Len(decrypted.value) >= n - 2 * BLOCK_SIZE
           /\ Len(decrypted.value) <= n - BLOCK_SIZE - 1

\* the lower end: an envelope of 48 bytes gives back 16, a whole block of
\* padding stripped
C28_Witness ==
  /\ DecOfEnvelope
  /\ ~decrypted.threw
  /\ Len(encryptedData.val) = 3 * BLOCK_SIZE
  /\ Len(decrypted.value) = BLOCK_SIZE

=============================================================================
